---- MODULE Spec2Model ----
(***************************************************************************)
(* RootTerminalAI proxy server: the chat pipeline of POST /proxy/chat in   *)
(* its three variants (direct with session store: unnamed/part_000,        *)
(* queued: server.js, stateless: unnamed/part_001) and the price cache of  *)
(* GET /proxy/cmc/prices.  Node runs a handler without preemption between  *)
(* two awaits, so one action is one such run of a handler.                 *)
(***************************************************************************)
EXTENDS Integers, Sequences, FiniteSets, TLC

\* ------------------------------------------------------------------ bounds
\* Number of chat requests that arrive.
MaxReq == 2
\* Number of price refreshes started (the startup one and the interval ticks).
MaxRefresh == 3

\* ------------------------------------------------------- program constants
MAX_RETRIES == 3
RETRY_DELAY == 2000

Req == 1..MaxReq
Variants == {"direct", "queued", "stateless"}

\* ---------------------------------------------------------- JS values
\* A JS value of req.body.message: its typeof and, as a sequence of
\* characters, its text (the digits of a number, nothing for undefined).
Chars == {" ", "a"}
Whitespace == {" "}
Undefined == [t |-> "undefined", v |-> <<>>]
Str(s) == [t |-> "string", v |-> s]
Num(s) == [t |-> "number", v |-> s]

\* The strings a caller sends: empty, whitespace only, plain, and padded with
\* whitespace on both sides.
Strings == {<<>>, <<" ">>, <<"a">>, <<" ", "a", " ">>}

\* The values a caller can put in body.message: nothing, a number, and the
\* strings above.
Messages == {Undefined, Num(<<"7">>)} \cup {Str(s) : s \in Strings}

\* JS truthiness, as `!message` reads it.
Truthy(m) ==
    CASE m.t = "undefined" -> FALSE
      [] m.t = "number" -> m.v # <<"0">>
      [] m.t = "string" -> m.v # <<>>
      [] OTHER -> TRUE

RECURSIVE TrimStart(_)
TrimStart(s) ==
    IF s # <<>> /\ Head(s) \in Whitespace THEN TrimStart(Tail(s)) ELSE s

RECURSIVE TrimEnd(_)
TrimEnd(s) ==
    IF s # <<>> /\ s[Len(s)] \in Whitespace
    THEN TrimEnd(SubSeq(s, 1, Len(s) - 1))
    ELSE s

\* String.prototype.trim
Trim(s) == TrimEnd(TrimStart(s))

\* validateInput without the trim: whitespace-only strings pass.
validateInputNoTrim(message) ==
    ~(~Truthy(message) \/ message.t # "string")

\* validateInput returns normally (TRUE) or throws (FALSE).
validateInput(message) ==
    ~(\/ ~Truthy(message)
      \/ message.t # "string"
      \/ Len(Trim(message.v)) = 0)

\* ---------------------------------------------------------- session store
SessionIds == {"s1", "s2"}
NoHeader == "none"
Headers == SessionIds \cup {NoHeader}
DefaultSession == "default-session"

SystemMessage == [role |-> "system", content |-> Str(<<"S">>)]
UserMessage(m) == [role |-> "user", content |-> m]
AssistantMessage(c) == [role |-> "assistant", content |-> c]

\* chatHistory.has(k)
Has(h, k) == k \in DOMAIN h

\* chatHistory.set(k, t)
MapSet(h, k, t) == [x \in (DOMAIN h) \cup {k} |-> IF x = k THEN t ELSE h[x]]

\* The seeding without its has() test: every request adds a system message.
GetOrCreateReseed(h, k) ==
    IF Has(h, k) THEN [h EXCEPT ![k] = Append(@, SystemMessage)]
    ELSE MapSet(h, k, <<SystemMessage>>)

\* if (!chatHistory.has(sessionId)) chatHistory.set(sessionId, [system])
GetOrCreate(h, k) == IF Has(h, k) THEN h ELSE MapSet(h, k, <<SystemMessage>>)

\* The array rebuilt from the system message and the new message.
PushReplace(h, k, m) == [h EXCEPT ![k] = <<SystemMessage, m>>]

\* chatHistory.get(k).push(m)
Push(h, k, m) == [h EXCEPT ![k] = Append(@, m)]

\* chatHistory.get(sessionId).push({ role: "user", content: req.body.message })
PushUser(h, k, m) == Push(h, k, UserMessage(m))

\* The reply is answered but not recorded.
PushAssistantMissing(h, k, c) == h

\* The reply put at the front of the array (unshift for push).
PushAssistantUnshift(h, k, c) ==
    [h EXCEPT ![k] = <<AssistantMessage(c)>> \o @]

\* The reply recorded twice.
PushAssistantTwice(h, k, c) ==
    [h EXCEPT ![k] = Append(Append(@, AssistantMessage(c)), AssistantMessage(c))]

\* chatHistory.get(sessionId).push({ role: "assistant", content: aiResponse })
PushAssistant(h, k, c) == Push(h, k, AssistantMessage(c))

\* ---------------------------------------------------------------- gateway
\* What one call of client.chat.completions.create can do: throw (network,
\* timeout, non-2xx), or return a response with no choices, with a choice
\* whose message has no content, or with a choice that has content.
Outcomes == {"error", "nochoice", "nocontent", "ok"}

\* The text of the completion that answers request r.
ReplyChar(r) == CASE r = 1 -> "p" [] r = 2 -> "q" [] r = 3 -> "r" [] OTHER -> "z"
Reply(r) == Str(<<ReplyChar(r)>>)

\* response.choices[0].message.content throws a TypeError
ReadThrows(o) == o = "nochoice"

\* response.choices[0].message.content, when it does not throw
Content(o, r) == IF o = "ok" THEN Reply(r) ELSE Undefined

VARIABLES
    variant,      \* which server file is running
    chatHistory,  \* the Map sessionId -> array of messages
    req,          \* per request: the handler's locals and its position
    jobs,         \* the Bull queue: every job added, in the order of the add calls
    cryptoCache,  \* the price snapshot
    refresh,      \* per refresh: "idle", "inflight", or how its response ended it
    now,          \* the clock new Date() reads
    lastGet       \* the last answer of GET /proxy/cmc/prices

chatVars == <<variant, chatHistory, req, jobs>>
priceVars == <<cryptoCache, refresh, now, lastGet>>
vars == <<variant, chatHistory, req, jobs, cryptoCache, refresh, now, lastGet>>

IdleReq ==
    [pc |-> "idle", header |-> NoHeader, sessionId |-> NoHeader,
     message |-> Undefined, retryCount |-> 0, status |-> 0, body |-> "none",
     calls |-> 0, waits |-> 0, waited |-> 0, last |-> "none", job |-> 0,
     sent |-> <<>>, pre |-> <<>>, alone |-> TRUE, responses |-> 0,
     data |-> [messages |-> <<>>, copied |-> FALSE]]

InFlight(r) == req[r].pc \notin {"idle", "done"}

\* ------------------------------------------------------------ the handlers
\* The header ignored: every request uses the default key.
ResolveSessionIgnoresHeader(v, h) == DefaultSession

\* const sessionId = req.headers["session-id"] (direct) or
\* req.headers["session-id"] || "default-session" (queued).
ResolveSession(v, h) ==
    IF v = "queued" /\ h = NoHeader THEN DefaultSession ELSE h

\* The header test dropped: a request without session id goes on.
SessionRequiredNever(v, h) == FALSE

\* if (!sessionId) return res.status(400)..., which only the direct variant has
SessionRequired(v, h) == v = "direct" /\ h = NoHeader

\* The status the handler's outer catch answers when validateInput throws.
ValidationStatus(v) == IF v = "queued" THEN 500 ELSE 400

ValidationBody(v) == IF v = "queued" THEN "unavailable" ELSE "invalid_input"

\* The attempt failed: the Gateway call threw, or (direct variant only, which
\* reads the reply inside the inner try) reading the reply threw.
AttemptFailed(v, o) ==
    \/ o = "error"
    \/ v = "direct" /\ ReadThrows(o)

\* The caught error's detail echoed to the caller.
ErrorBodyEcho(detail) == detail

\* The body of a 500: a fixed text, whatever error the catch received.
ErrorBody(detail) == "unavailable"

\* The Gateway called with the transcript the request first sent.
AttemptMessagesFirst(h, k, first) == first

\* messages: chatHistory.get(sessionId), evaluated at each attempt
AttemptMessages(h, k, first) == h[k]

\* The data of no job.
NoData == [messages |-> <<>>, copied |-> FALSE]

\* { sessionId, messages: chatHistory.get(sessionId) }: the object handed to
\* aiQueue.add holds the session's array itself, not a copy of it.
JobData(h, k) == [messages |-> h[k], copied |-> FALSE]

\* What an object that holds the array of key k reads in it once the store is
\* h: the array as it is now, until the queue has serialised the object.
Sync(x, k, h) == IF x.copied THEN x ELSE [x EXCEPT !.messages = h[k]]

\* The queue serialises the data: from now on it holds its own copy.
Serialized(x) == [x EXCEPT !.copied = TRUE]

\* const { sessionId, messages } = job.data
JobMessages(job, h) == job.messages

\* The give-up test one attempt late.
ExhaustedLate(retryCount) == retryCount > MAX_RETRIES

\* if (retryCount === MAX_RETRIES), read after retryCount++
Exhausted(retryCount) == retryCount = MAX_RETRIES

\* The job request r adds: its data, and what the queue records of it.
NewJob(r, k, d) ==
    [owner |-> r, sessionId |-> k, messages |-> d.messages, copied |-> d.copied,
     state |-> "waiting", outcome |-> "none", calls |-> 0, sent |-> <<>>]

\* js with job put at the place of its call of aiQueue.add among the calls
\* that made the jobs of js (requests are numbered as they arrive).
Insert(js, job) ==
    LET n == Cardinality({j \in 1..Len(js) : js[j].owner < job.owner})
    IN SubSeq(js, 1, n) \o <<job>> \o SubSeq(js, n + 1, Len(js))

\* The job added twice.
EnqueueTwice(js, r, k, d) == Insert(Insert(js, NewJob(r, k, d)), NewJob(r, k, d))

\* aiQueue.add({ sessionId, messages }) resolves: the job is in the queue,
\* with the data the handler gave to add.  The queue is first in, first out
\* by the order of the calls of add.
Enqueue(js, r, k, d) == Insert(js, NewJob(r, k, d))

\* The place in js of the job that request r holds (const job).
JobIndex(js, r) == CHOOSE j \in 1..Len(js) : js[j].owner = r

\* Every job that holds the array of key k reads the array of store h.
SyncJobs(js, k, h) ==
    [j \in 1..Len(js) |-> IF js[j].sessionId = k THEN Sync(js[j], k, h) ELSE js[j]]

\* The data of a pending aiQueue.add of a request on key k reads the array of
\* store h.
SyncReq(rec, k, h) ==
    IF rec.pc = "awaitAdd" /\ rec.sessionId = k
    THEN [rec EXCEPT !.data = Sync(@, k, h)]
    ELSE rec

\* The handler answers and returns.
Answer(rec, st, b) ==
    [rec EXCEPT !.pc = "done", !.status = st, !.body = b, !.responses = @ + 1]

\* Requests on key k that are between two awaits of their handler.
Others(r, k) == {q \in Req \ {r} : InFlight(q) /\ req[q].sessionId = k}

\* POST /proxy/chat, from the start of the handler to its first await: the
\* Gateway call (direct, stateless) or aiQueue.add (queued).
Receive(r, h, m) ==
    /\ req[r].pc = "idle"
    /\ \A q \in Req : q < r => req[q].pc # "idle"
    /\ LET k == ResolveSession(variant, h)
           in == [req[r] EXCEPT !.header = h, !.sessionId = k, !.message = m]
       IN
       IF SessionRequired(variant, h) THEN
           /\ req' = [req EXCEPT ![r] = Answer(in, 400, "session_required")]
           /\ UNCHANGED <<chatHistory, jobs>>
       ELSE IF ~validateInput(m) THEN
           /\ req' = [req EXCEPT ![r] =
                  Answer(in, ValidationStatus(variant), ValidationBody(variant))]
           /\ UNCHANGED <<chatHistory, jobs>>
       ELSE IF variant = "stateless" THEN
           /\ req' = [req EXCEPT ![r] =
                  [in EXCEPT !.pc = "call", !.calls = 1,
                             !.sent = <<SystemMessage, UserMessage(m)>>]]
           /\ UNCHANGED <<chatHistory, jobs>>
       ELSE
           LET seeded == GetOrCreate(chatHistory, k)
               pushed == PushUser(seeded, k, m)
               mine == [in EXCEPT !.pre = seeded[k], !.alone = Others(r, k) = {}]
           IN
           /\ chatHistory' = pushed
           /\ IF variant = "direct" THEN
                  /\ req' = [q \in Req |->
                        IF q = r THEN [mine EXCEPT !.pc = "call", !.calls = 1,
                                  !.sent = AttemptMessages(pushed, k, pushed[k])]
                        ELSE IF q \in Others(r, k) THEN [req[q] EXCEPT !.alone = FALSE]
                        ELSE req[q]]
                  /\ UNCHANGED jobs
              ELSE
                  /\ jobs' = SyncJobs(jobs, k, pushed)
                  /\ req' = [q \in Req |->
                        IF q = r THEN [mine EXCEPT !.pc = "awaitAdd",
                                                   !.data = JobData(pushed, k)]
                        ELSE IF q \in Others(r, k)
                        THEN SyncReq([req[q] EXCEPT !.alone = FALSE], k, pushed)
                        ELSE req[q]]
    /\ UNCHANGED <<variant, priceVars>>

\* client.chat.completions.create settles inside the retry loop (direct and
\* stateless variants): the rest of the try block, or the catch block.
GatewayReturn(r, o) ==
    /\ variant \in {"direct", "stateless"}
    /\ req[r].pc = "call"
    /\ IF AttemptFailed(variant, o) THEN
           LET n == req[r].retryCount + 1 IN
           /\ req' = [req EXCEPT ![r] =
                  IF Exhausted(n)
                  THEN Answer([@ EXCEPT !.retryCount = n, !.last = o],
                              500, ErrorBody(o))
                  ELSE [@ EXCEPT !.retryCount = n, !.pc = "delay",
                                 !.waits = @ + 1,
                                 !.waited = @ + RETRY_DELAY]]
           /\ UNCHANGED chatHistory
       ELSE
           /\ chatHistory' =
                  IF variant = "direct"
                  THEN PushAssistant(chatHistory, req[r].sessionId, Content(o, r))
                  ELSE chatHistory
           /\ req' = [req EXCEPT ![r] =
                  Answer([@ EXCEPT !.last = o], 200, "completion")]
    /\ UNCHANGED <<variant, jobs, priceVars>>

\* The RETRY_DELAY timer fires: the loop tests retryCount < MAX_RETRIES and
\* calls the Gateway again with chatHistory.get(sessionId) as it is now.
DelayElapsed(r) ==
    /\ req[r].pc = "delay"
    /\ req[r].retryCount < MAX_RETRIES
    /\ req' = [req EXCEPT ![r] =
           [@ EXCEPT !.pc = "call", !.calls = @ + 1,
                     !.sent = IF variant = "direct"
                              THEN AttemptMessages(chatHistory, req[r].sessionId,
                                       Append(req[r].pre,
                                              UserMessage(req[r].message)))
                              ELSE @]]
    /\ UNCHANGED <<variant, chatHistory, jobs, priceVars>>

\* The queue takes its copy of the data of a job (it serialises it for Redis).
\* The handler hands aiQueue.add the session's array and returns to the event
\* loop, so the copy is taken at some point from the call of add on: before
\* any other handler runs, while add is pending, or after add has resolved; a
\* job whose data is never copied reaches the worker with the array itself.
DataSerialized(r) ==
    /\ variant = "queued"
    /\ \/ /\ req[r].pc = "awaitAdd"
          /\ ~req[r].data.copied
          /\ req' = [req EXCEPT ![r].data = Serialized(@)]
          /\ UNCHANGED jobs
       \/ /\ req[r].pc = "awaitJob"
          /\ jobs[JobIndex(jobs, r)].state = "waiting"
          /\ ~jobs[JobIndex(jobs, r)].copied
          /\ jobs' = [jobs EXCEPT ![JobIndex(jobs, r)] = Serialized(@)]
          /\ UNCHANGED req
    /\ UNCHANGED <<variant, chatHistory, priceVars>>

\* await aiQueue.add(...) settles: it resolves with the job, and the handler
\* goes on to await job.finished(), or it rejects (the queue cannot reach
\* Redis) and the handler's catch answers 500.
AddReturn(r, added) ==
    /\ req[r].pc = "awaitAdd"
    /\ IF added THEN
           /\ jobs' = Enqueue(jobs, r, req[r].sessionId, req[r].data)
           /\ req' = [req EXCEPT ![r] =
                  [@ EXCEPT !.pc = "awaitJob", !.job = r,
                            !.data = NoData]]
       ELSE
           /\ req' = [req EXCEPT ![r] =
                  Answer([@ EXCEPT !.last = "addfailed", !.data = NoData],
                         500, ErrorBody("addfailed"))]
           /\ UNCHANGED jobs
    /\ UNCHANGED <<variant, chatHistory, priceVars>>

\* The queue's worker (concurrency 1) takes the oldest waiting job and calls
\* processAIRequest(job.data.messages).  The processor reads job.data once,
\* here: the transcript it reads is the one the job carries from now on.
ActiveJobs == {j \in 1..Len(jobs) : jobs[j].state = "active"}
WaitingJobs == {j \in 1..Len(jobs) : jobs[j].state = "waiting"}

WorkerStart ==
    /\ ActiveJobs = {}
    /\ WaitingJobs # {}
    /\ LET j == CHOOSE x \in WaitingJobs : \A y \in WaitingJobs : x <= y IN
       jobs' = [jobs EXCEPT ![j] =
                   [Serialized(@) EXCEPT !.state = "active", !.calls = @ + 1,
                             !.sent = JobMessages(jobs[j], chatHistory)]]
    /\ UNCHANGED <<variant, chatHistory, req, priceVars>>

\* processAIRequest settles: the processor returns the response (the job
\* completes) or rethrows the error (the job fails).
WorkerReturn(j, o) ==
    /\ j \in ActiveJobs
    /\ jobs' = [jobs EXCEPT ![j] =
           IF o = "error"
           THEN [@ EXCEPT !.state = "failed", !.outcome = o]
           ELSE [@ EXCEPT !.state = "completed", !.outcome = o]]
    /\ UNCHANGED <<variant, chatHistory, req, priceVars>>

\* await job.finished() settles: the rest of the queued handler.
JobFinished(r) ==
    /\ req[r].pc = "awaitJob"
    /\ LET job == jobs[JobIndex(jobs, req[r].job)]
           k == req[r].sessionId
       IN
       /\ job.state \in {"completed", "failed"}
       /\ IF job.state = "failed" \/ ReadThrows(job.outcome) THEN
              /\ req' = [req EXCEPT ![r] =
                     Answer([@ EXCEPT !.last = job.outcome], 500,
                            ErrorBody(job.outcome))]
              /\ UNCHANGED <<chatHistory, jobs>>
          ELSE
              /\ chatHistory' = PushAssistant(chatHistory, k, Content(job.outcome, r))
              /\ jobs' = SyncJobs(jobs, k, chatHistory')
              /\ req' = [q \in Req |->
                     IF q = r
                     THEN Answer([req[r] EXCEPT !.last = job.outcome],
                                 200, "completion")
                     ELSE SyncReq(req[q], k, chatHistory')]
    /\ UNCHANGED <<variant, priceVars>>

\* ------------------------------------------------------------ price cache
Symbols == {"BTC", "ETH", "SOL"}

\* One symbol's entry in response.data.data: absent, present without
\* quote.USD (reading .price throws), present with quote.USD but no price
\* (reads undefined), or present with a price.
Entries == {"absent", "malformed", "noprice", "ok"}

\* What axios.get can do: reject (network error, non-2xx), resolve without
\* data.data, or resolve with a data.data object.
Responses ==
    {[kind |-> "neterr", data |-> [y \in Symbols |-> "absent"]],
     [kind |-> "nodata", data |-> [y \in Symbols |-> "absent"]]}
    \cup {[kind |-> "body", data |-> d] : d \in [Symbols -> Entries]}

SymbolIndex(y) == CASE y = "BTC" -> 1 [] y = "ETH" -> 2 [] OTHER -> 3

\* The price of symbol y in the response to refresh i: every response quotes
\* its own prices, so a price names the response it came from.
Price(i, y) == i * 10 + SymbolIndex(y)

\* undefined, as a price
NoPrice == -1

\* lastUpdated: null
Null == 0

\* data.X.quote.USD.price
PriceOf(e, i, y) == IF e = "ok" THEN Price(i, y) ELSE NoPrice

\* data && data.BTC && data.ETH && data.SOL
AllPresent(resp) ==
    /\ resp.kind = "body"
    /\ resp.data["BTC"] # "absent"
    /\ resp.data["ETH"] # "absent"
    /\ resp.data["SOL"] # "absent"

\* Evaluating the object literal throws a TypeError.
LiteralThrows(resp) == \E y \in Symbols : resp.data[y] = "malformed"

\* The cache updated symbol by symbol, each symbol that has a price.
fetchCryptoPricesMerge(cache, resp, i, t) ==
    IF resp.kind # "body" THEN cache
    ELSE [btcPrice |-> IF resp.data["BTC"] = "ok"
                       THEN Price(i, "BTC") ELSE cache.btcPrice,
          ethPrice |-> IF resp.data["ETH"] = "ok"
                       THEN Price(i, "ETH") ELSE cache.ethPrice,
          solPrice |-> IF resp.data["SOL"] = "ok"
                       THEN Price(i, "SOL") ELSE cache.solPrice,
          lastUpdated |-> t]

\* The cache assigned field by field, so that a TypeError at a later symbol
\* leaves the earlier fields written.
fetchCryptoPricesFieldwise(cache, resp, i, t) ==
    IF resp.kind = "neterr" THEN cache
    ELSE IF ~AllPresent(resp) THEN cache
    ELSE IF resp.data["BTC"] = "malformed" THEN cache
    ELSE LET c1 == [cache EXCEPT !.btcPrice = PriceOf(resp.data["BTC"], i, "BTC")]
         IN IF resp.data["ETH"] = "malformed" THEN c1
            ELSE LET c2 == [c1 EXCEPT !.ethPrice =
                                PriceOf(resp.data["ETH"], i, "ETH")]
                 IN IF resp.data["SOL"] = "malformed" THEN c2
                    ELSE [c2 EXCEPT !.solPrice =
                              PriceOf(resp.data["SOL"], i, "SOL"),
                          !.lastUpdated = t]

\* fetchCryptoPrices from the settling of axios.get on: the cache it leaves.
\* The object literal is evaluated in full before cryptoCache is assigned.
fetchCryptoPrices(cache, resp, i, t) ==
    IF resp.kind = "neterr" THEN cache
    ELSE IF ~AllPresent(resp) THEN cache
    ELSE IF LiteralThrows(resp) THEN cache
    ELSE [btcPrice |-> PriceOf(resp.data["BTC"], i, "BTC"),
          ethPrice |-> PriceOf(resp.data["ETH"], i, "ETH"),
          solPrice |-> PriceOf(resp.data["SOL"], i, "SOL"),
          lastUpdated |-> t]

\* How a response ends a refresh, read off the response alone.
Classify(resp) ==
    CASE resp.kind = "neterr" -> "neterr"
      [] resp.kind = "nodata" -> "incomplete"
      [] \E y \in Symbols : resp.data[y] = "absent" -> "incomplete"
      [] \E y \in Symbols : resp.data[y] = "malformed" -> "malformed"
      [] OTHER -> "complete"

\* setInterval(fetchCryptoPrices, 5 * 60 * 1000): the next refresh starts,
\* whether or not an earlier one is still in flight.
Tick ==
    /\ \E i \in 1..MaxRefresh :
          /\ refresh[i] = "idle"
          /\ \A j \in 1..(i - 1) : refresh[j] # "idle"
          /\ refresh' = [refresh EXCEPT ![i] = "inflight"]
    /\ UNCHANGED <<cryptoCache, now, lastGet, chatVars>>

\* axios.get of refresh i settles with resp; the clock has moved on.
RefreshReturn(i, resp) ==
    /\ refresh[i] = "inflight"
    /\ cryptoCache' = fetchCryptoPrices(cryptoCache, resp, i, now)
    /\ refresh' = [refresh EXCEPT ![i] = Classify(resp)]
    /\ now' = now + 1
    /\ UNCHANGED <<lastGet, chatVars>>

\* GET /proxy/cmc/prices
GetPrices(cache) ==
    IF cache.lastUpdated # Null
    THEN [status |-> 200, body |-> cache]
    ELSE [status |-> 503, body |-> [btcPrice |-> 0, ethPrice |-> 0,
                                     solPrice |-> 0, lastUpdated |-> Null]]

ReadPrices ==
    /\ lastGet' = GetPrices(cryptoCache)
    /\ lastGet' # lastGet
    /\ UNCHANGED <<cryptoCache, refresh, now, chatVars>>


\* ------------------------------------------------------------------ Init
EmptyCache == [btcPrice |-> 0, ethPrice |-> 0, solPrice |-> 0, lastUpdated |-> Null]

Init ==
    /\ variant \in Variants
    /\ chatHistory = <<>>
    /\ req = [r \in Req |-> IdleReq]
    /\ jobs = <<>>
    /\ cryptoCache = EmptyCache
    /\ refresh = [i \in 1..MaxRefresh |-> IF i = 1 THEN "inflight" ELSE "idle"]
    /\ now = 1
    /\ lastGet = [status |-> 0, body |-> EmptyCache]

\* Session ids are interchangeable names: the first one a caller sends is
\* called "s1".  The stateless variant does not read the header.
HeadersNow ==
    IF variant = "stateless" THEN {NoHeader}
    ELSE {h \in Headers : h = "s2" => \E q \in Req : req[q].header = "s1"}

Next ==
    \/ \E r \in Req, h \in HeadersNow, m \in Messages : Receive(r, h, m)
    \/ \E r \in Req, o \in Outcomes : GatewayReturn(r, o)
    \/ \E r \in Req : DelayElapsed(r)
    \/ \E r \in Req : DataSerialized(r)
    \/ \E r \in Req, added \in BOOLEAN : AddReturn(r, added)
    \/ WorkerStart
    \/ \E j \in 1..Len(jobs), o \in Outcomes : WorkerReturn(j, o)
    \/ \E r \in Req : JobFinished(r)

Spec == Init /\ [][Next]_vars

\* Every Gateway call settles (it carries a timeout), every timer fires,
\* every aiQueue.add settles, the worker takes and finishes every job, and a
\* settled job resumes its handler.
Fairness ==
    /\ \A r \in Req : WF_vars(\E o \in Outcomes : GatewayReturn(r, o))
    /\ \A r \in Req : WF_vars(\E added \in BOOLEAN : AddReturn(r, added))
    /\ \A r \in Req : WF_vars(DelayElapsed(r))
    /\ WF_vars(WorkerStart)
    /\ WF_vars(\E j \in 1..MaxReq, o \in Outcomes : WorkerReturn(j, o))
    /\ \A r \in Req : WF_vars(JobFinished(r))

\* Whether and when a request ends does not depend on the text of its
\* message beyond validateInput's verdict: the fair behaviours are explored
\* with one message that fails validation and one that passes.
FairMessages == {Undefined, Str(<<"a">>)}

FairNext ==
    \/ \E r \in Req, h \in HeadersNow, m \in FairMessages : Receive(r, h, m)
    \/ \E r \in Req, o \in Outcomes : GatewayReturn(r, o)
    \/ \E r \in Req : DelayElapsed(r)
    \/ \E r \in Req : DataSerialized(r)
    \/ \E r \in Req, added \in BOOLEAN : AddReturn(r, added)
    \/ WorkerStart
    \/ \E j \in 1..Len(jobs), o \in Outcomes : WorkerReturn(j, o)
    \/ \E r \in Req : JobFinished(r)

FairSpec == Init /\ [][FairNext]_vars /\ Fairness

\* The price cache shares no state with the chat pipeline; its steps are
\* checked as a specification of their own.
NextPrices ==
    \/ Tick
    \/ \E i \in 1..MaxRefresh, resp \in Responses : RefreshReturn(i, resp)
    \/ ReadPrices

SpecPrices == Init /\ [][NextPrices]_vars

\* ================================================================ claims
\* Helpers of the claims, written from the claims' words.

\* A message that is absent, not a string, empty or whitespace-only.
IsBlank(m) == m.t # "string" \/ \A i \in 1..Len(m.v) : m.v[i] \in Whitespace

Stateful == variant \in {"direct", "queued"}

\* r's handler has just run from its start to its first await or its return.
Arrives(r) == req[r].pc = "idle" /\ req'[r].pc # "idle"

\* r's handler has just sent its response.
Finishes(r) == InFlight(r) /\ req'[r].pc = "done"

IsPrefix(s, t) == Len(s) <= Len(t) /\ SubSeq(t, 1, Len(s)) = s

\* C1: in the stateful variants a blank message (absent, not a string, empty,
\* whitespace-only) is rejected by the handler's first run with the session
\* store and the queue left as they were; a message with a non-whitespace
\* character passes validation: the handler appends it and goes on to the
\* completion (unless the direct variant misses its session-id header).
C1_ValidationBeforeMutation ==
    [][\A r \in Req : (Stateful /\ Arrives(r)) =>
          IF IsBlank(req'[r].message)
          THEN /\ req'[r].pc = "done"
               /\ req'[r].status \in {400, 500}
               /\ req'[r].calls = 0
               /\ chatHistory' = chatHistory
               /\ jobs' = jobs
          ELSE \/ variant = "direct" /\ req'[r].header = NoHeader
               \/ /\ req'[r].pc \in {"call", "awaitAdd"}
                  /\ req'[r].sessionId \in DOMAIN chatHistory'
                  /\ LET t == chatHistory'[req'[r].sessionId]
                     IN t[Len(t)] = UserMessage(req'[r].message)]_vars

\* C1 witness: a whitespace-only message was rejected with the store still
\* empty, and a padded message is past validation.
C1_Witness ==
    /\ variant = "queued"
    /\ req[1].pc = "done" /\ req[1].message = Str(<<" ">>)
    /\ req[2].pc = "awaitAdd" /\ req[2].message = Str(<<" ", "a", " ">>)
    /\ DOMAIN chatHistory = {DefaultSession}

\* C2: every transcript in the session store starts with the system message
\* and holds exactly one message of role system.
C2_SystemMessageFirstAndOnce ==
    \A k \in DOMAIN chatHistory :
        /\ Len(chatHistory[k]) >= 1
        /\ chatHistory[k][1] = SystemMessage
        /\ Cardinality({i \in 1..Len(chatHistory[k]) :
                           chatHistory[k][i].role = "system"}) = 1

\* C2 witness: two requests on one key have both been answered with a
\* completion, so that the key's transcript holds five messages.
C2_Witness ==
    \E k \in DOMAIN chatHistory :
        /\ Len(chatHistory[k]) = 5
        /\ \A r \in 1..2 : req[r].pc = "done" /\ req[r].status = 200
                            /\ req[r].sessionId = k

\* C3: in the direct variants (with and without session store) a request never
\* makes more than MAX_RETRIES = 3 Gateway calls; one wait of RETRY_DELAY
\* follows each failed call but the last; after three failed calls the request
\* has answered 500 with exactly two waits behind it, and no 500 is answered
\* to a validated request after fewer than three failed calls.
C3_ThreeAttemptsThen500 ==
    variant \in {"direct", "stateless"} =>
        \A r \in Req :
            /\ req[r].calls <= 3
            /\ req[r].waited = req[r].waits * 2000
            /\ req[r].pc = "call" => req[r].waits = req[r].calls - 1
                                      /\ req[r].retryCount = req[r].calls - 1
            /\ req[r].pc = "delay" => req[r].waits = req[r].calls
                                       /\ req[r].retryCount = req[r].calls
                                       /\ req[r].calls < 3
            /\ req[r].retryCount = 3 =>
                   /\ req[r].pc = "done" /\ req[r].status = 500
                   /\ req[r].calls = 3 /\ req[r].waits = 2
            /\ (req[r].pc = "done" /\ req[r].status = 500) =>
                   /\ req[r].retryCount = 3 /\ req[r].calls = 3
                   /\ req[r].waits = 2 /\ req[r].waited = 4000

\* C3 witness: a request of the direct variant answered 500 after three calls.
C3_Witness ==
    \E r \in Req :
        /\ variant = "direct"
        /\ req[r].pc = "done" /\ req[r].status = 500
        /\ req[r].calls = 3 /\ req[r].waits = 2

\* C4: direct variant: a Gateway call that returns a completion ends the
\* request with 200 after k = 0, 1 or 2 failed calls, and when no other
\* request on the session was in flight with it, the transcript is then the
\* transcript the request found (seeded with the system message if new)
\* followed by its user message and one assistant message: two more, for
\* every k.
C4_GainIsUserThenAssistant ==
    [][\A r \in Req : (variant = "direct" /\ Finishes(r)) =>
          /\ req'[r].last \in {"ok", "nocontent"} <=> req'[r].status = 200
          /\ req'[r].status = 200 =>
                /\ req'[r].retryCount \in 0..2
                /\ req'[r].calls = req'[r].retryCount + 1
                /\ req'[r].alone =>
                      LET t == chatHistory'[req[r].sessionId] IN
                      /\ Len(t) = Len(req[r].pre) + 2
                      /\ SubSeq(t, 1, Len(t) - 2) = req[r].pre
                      /\ t[Len(t) - 1] = UserMessage(req[r].message)
                      /\ t[Len(t)].role = "assistant"]_vars

\* C4 witness: a request answered 200 at its third call, alone on its
\* session, whose transcript holds system, user, assistant.
C4_Witness ==
    \E r \in Req :
        /\ variant = "direct"
        /\ req[r].pc = "done" /\ req[r].status = 200 /\ req[r].retryCount = 2
        /\ req[r].alone
        /\ chatHistory[req[r].sessionId] =
               <<SystemMessage, UserMessage(req[r].message),
                 AssistantMessage(Reply(r))>>

\* C5: a request whose message fails validation is answered 400 in every
\* variant, and 500 is answered only after a completion was tried and failed.
C5_ValidationAnswers400 ==
    \A r \in Req : req[r].pc = "done" =>
        /\ IsBlank(req[r].message) => req[r].status = 400
        /\ req[r].status = 500 => req[r].last \in {"error", "nochoice", "nocontent"}

\* C6: when the completion of a validated request fails (direct: three failed
\* attempts; queued: the job is rejected or its result has no choice or no
\* content) the request answers 500 and, if no other request on the session
\* was in flight with it, leaves the transcript it found plus its user message.
C6_FailureLeavesUserMessage ==
    [][\A r \in Req :
          (/\ Stateful
           /\ Finishes(r)
           /\ \/ variant = "direct" /\ req'[r].retryCount = 3
              \/ variant = "queued"
                 /\ req'[r].last \in {"error", "nochoice", "nocontent"}) =>
          /\ req'[r].status = 500
          /\ req'[r].alone =>
                chatHistory'[req[r].sessionId] =
                    Append(req[r].pre, UserMessage(req[r].message))]_vars

\* C9: every step leaves every transcript with the transcript before the step
\* as a prefix, and removes no session key.
C9_AppendOnly ==
    [][\A k \in DOMAIN chatHistory :
          /\ k \in DOMAIN chatHistory'
          /\ IsPrefix(chatHistory[k], chatHistory'[k])]_vars

\* C9 witness: a failed request left its user message, and a later request on
\* the same key was answered: system, user, user, assistant.
C9_Witness ==
    \E k \in DOMAIN chatHistory :
        /\ Len(chatHistory[k]) = 4
        /\ chatHistory[k][2].role = "user"
        /\ chatHistory[k][3].role = "user"
        /\ chatHistory[k][4].role = "assistant"
        /\ req[1].pc = "done" /\ req[1].status = 500 /\ req[1].sessionId = k
        /\ req[2].pc = "done" /\ req[2].status = 200 /\ req[2].sessionId = k

\* Jobs that request r added to the queue.
JobsOf(r) == {j \in 1..Len(jobs) : jobs[j].owner = r}

\* What the worker and the awaiting handler do with a job: the worker calls
\* the Gateway once for a job it has taken and never again; a call that throws
\* fails the job and the request is answered 500; a call that returns a
\* completion completes the job and the request is answered 200.
OneCallPerJob ==
    \A j \in 1..Len(jobs) :
        /\ jobs[j].calls = IF jobs[j].state = "waiting" THEN 0 ELSE 1
        /\ jobs[j].outcome = "error" <=> jobs[j].state = "failed"
        /\ jobs[j].outcome = "ok" => jobs[j].state = "completed"
        /\ req[jobs[j].owner].pc = "done" =>
              /\ jobs[j].state \in {"completed", "failed"}
              /\ jobs[j].outcome = "error" => req[jobs[j].owner].status = 500
              /\ jobs[j].outcome = "ok" => req[jobs[j].owner].status = 200

\* C10 as claimed: queued variant: a request past validation has exactly one
\* job in the queue once its handler is past aiQueue.add (a rejected request
\* none), and the worker and the handler treat every job as above.
C10_OneJobOneCall ==
    variant = "queued" =>
        /\ \A r \in Req :
              /\ req[r].pc = "awaitJob" => Cardinality(JobsOf(r)) = 1
              /\ (req[r].pc = "done" /\ ~IsBlank(req[r].message)) =>
                     Cardinality(JobsOf(r)) = 1
              /\ (req[r].pc = "idle" \/ IsBlank(req[r].message)) => JobsOf(r) = {}
              /\ JobsOf(r) # {} => req[r].job = r
        /\ OneCallPerJob

\* C10 as amended: queued variant: a request never has more than one job; a
\* request past validation has none while aiQueue.add is pending, exactly
\* one once add has resolved, and none when add rejected, in which case it is
\* answered 500 and the worker makes no call for it; a request that failed
\* validation has none; the worker and the handler treat every job as above.
C10_OneAddAtMostOneJob ==
    variant = "queued" =>
        /\ \A r \in Req :
              /\ Cardinality(JobsOf(r)) <= 1
              /\ JobsOf(r) # {} <=> req[r].job = r
              /\ req[r].pc = "awaitAdd" => JobsOf(r) = {}
              /\ req[r].pc = "awaitJob" => Cardinality(JobsOf(r)) = 1
              /\ (req[r].pc = "done" /\ ~IsBlank(req[r].message)) =>
                     IF req[r].last = "addfailed"
                     THEN JobsOf(r) = {} /\ req[r].status = 500
                     ELSE Cardinality(JobsOf(r)) = 1
              /\ (req[r].pc = "idle" \/ IsBlank(req[r].message)) => JobsOf(r) = {}
        /\ OneCallPerJob

\* C10 witness: one request whose add rejected, answered 500 with no job, and
\* one whose job completed and was answered 200.
C10_Witness ==
    /\ variant = "queued"
    /\ Len(jobs) = 1
    /\ \E r \in Req : /\ req[r].pc = "done" /\ req[r].last = "addfailed"
                       /\ req[r].status = 500 /\ JobsOf(r) = {}
    /\ \E j \in 1..1 : jobs[j].state = "completed" /\ jobs[j].outcome = "ok"
                       /\ jobs[j].calls = 1
                       /\ req[jobs[j].owner].status = 200

\* Refreshes whose response had all three symbols with a readable quote.
Updated == {i \in 1..MaxRefresh : refresh[i] = "complete"}

\* Snapshot b holds, for each symbol, what the response to refresh i quoted.
FromResponse(b, i) ==
    /\ b.btcPrice \in {Price(i, "BTC"), NoPrice}
    /\ b.ethPrice \in {Price(i, "ETH"), NoPrice}
    /\ b.solPrice \in {Price(i, "SOL"), NoPrice}
    /\ b.lastUpdated # Null

\* C7: as long as no refresh has succeeded, GET /proxy/cmc/prices answers 503
\* and has never answered anything else; once a refresh has succeeded it
\* answers 200 with a snapshot taken whole from the response of one
\* successful refresh, with lastUpdated set; so does every 200 it has sent.
C7_ReaderSnapshot ==
    /\ Updated = {} =>
          /\ GetPrices(cryptoCache).status = 503
          /\ lastGet.status \in {0, 503}
    /\ Updated # {} =>
          /\ GetPrices(cryptoCache).status = 200
          /\ \E i \in Updated : FromResponse(GetPrices(cryptoCache).body, i)
    /\ lastGet.status = 200 => \E i \in Updated : FromResponse(lastGet.body, i)

\* C7 witness: the reader answered 200 with the first refresh's prices and the
\* cache has since been replaced by the second refresh's.
C7_Witness ==
    /\ lastGet.status = 200
    /\ lastGet.body.btcPrice = Price(1, "BTC")
    /\ lastGet.body.solPrice = Price(1, "SOL")
    /\ cryptoCache.btcPrice = Price(2, "BTC")
    /\ cryptoCache.ethPrice = Price(2, "ETH")
    /\ cryptoCache.solPrice = Price(2, "SOL")

\* C8: a refresh ended by a network error, by a response that lacks data or
\* one of the three symbols, or by a symbol entry without quote.USD leaves
\* cryptoCache as it was.
C8_FailedRefreshKeepsSnapshot ==
    [][\A i \in 1..MaxRefresh :
          (/\ refresh[i] = "inflight"
           /\ refresh'[i] \in {"neterr", "incomplete", "malformed"}) =>
          cryptoCache' = cryptoCache]_vars

\* C8 witness: after the first refresh filled the cache, one refresh ended on
\* a malformed entry and one on a missing symbol, and the cache still holds
\* the first refresh's prices.
C8_Witness ==
    /\ refresh[1] = "complete"
    /\ refresh[2] = "malformed"
    /\ refresh[3] = "incomplete"
    /\ cryptoCache = [btcPrice |-> Price(1, "BTC"), ethPrice |-> Price(1, "ETH"),
                      solPrice |-> Price(1, "SOL"), lastUpdated |-> 1]

\* C11: direct variant: a request without session-id header is answered 400 by
\* the handler's first run, whatever its message, with no session created, no
\* transcript changed and no Gateway call made.
C11_MissingSessionId ==
    [][\A r \in Req :
          (variant = "direct" /\ Arrives(r) /\ req'[r].header = NoHeader) =>
          /\ req'[r].pc = "done"
          /\ req'[r].status = 400
          /\ req'[r].calls = 0
          /\ chatHistory' = chatHistory
          /\ jobs' = jobs]_vars

\* C11 witness: a request with a valid message and no header was answered 400
\* and the store is still empty.
C11_Witness ==
    /\ variant = "direct"
    /\ req[1].pc = "done" /\ req[1].header = NoHeader /\ req[1].status = 400
    /\ req[1].message = Str(<<"a">>)
    /\ DOMAIN chatHistory = {}

\* C12: under the fairness above there comes a point from which every request
\* that has arrived is in its terminal state, so every request that arrives
\* terminates; a request in its terminal state has sent exactly one
\* response, with status 200, 400 or 500, and a request that is not has sent
\* none; a terminated request changes nothing any more: its record stays as
\* it is, and every change of the store or the queue comes with a step of a
\* request that had not terminated.
C12_TerminatesWithOneResponse ==
    /\ <>[](\A r \in Req : req[r].pc \in {"idle", "done"})
    /\ [](\A r \in Req :
            /\ req[r].responses = IF req[r].pc = "done" THEN 1 ELSE 0
            /\ req[r].pc = "done" => req[r].status \in {200, 400, 500}
            /\ req[r].pc # "done" => req[r].status = 0)
    /\ [][/\ \A r \in Req : req[r].pc = "done" => req'[r] = req[r]
          /\ (chatHistory' # chatHistory \/ Len(jobs') # Len(jobs)) =>
                \E r \in Req : req[r].pc # "done" /\ req'[r].pc # req[r].pc]_vars

\* C12 witness: both requests have terminated, one after three failed
\* attempts and one with a completion.
C12_Witness ==
    /\ \A r \in Req : req[r].pc = "done" /\ req[r].responses = 1
    /\ \E r \in Req : req[r].status = 500 /\ req[r].retryCount = 3
    /\ \E r \in Req : req[r].status = 200

\* C13: a request on a key is never held back by another request in flight on
\* that key: its user message goes to the end of the transcript as it stands
\* when it arrives, and its reply goes to the end of the transcript as it
\* stands when its completion finishes, so replies are in finishing order.
C13_NoSerialization ==
    [][\A r \in Req : Stateful =>
          /\ (Arrives(r) /\ req'[r].pc # "done") =>
                LET k == req'[r].sessionId IN
                chatHistory'[k] =
                    Append(IF k \in DOMAIN chatHistory
                           THEN chatHistory[k] ELSE <<SystemMessage>>,
                           UserMessage(req'[r].message))
          /\ (Finishes(r) /\ req'[r].status = 200) =>
                LET k == req[r].sessionId IN
                /\ Len(chatHistory'[k]) = Len(chatHistory[k]) + 1
                /\ SubSeq(chatHistory'[k], 1, Len(chatHistory[k])) = chatHistory[k]
                /\ chatHistory'[k][Len(chatHistory'[k])].role = "assistant"]_vars

\* C13 witness: on one key, both user messages precede both replies and the
\* second request's reply precedes the first's.
C13_Witness ==
    \E k \in DOMAIN chatHistory :
        /\ req[1].sessionId = k /\ req[2].sessionId = k
        /\ chatHistory[k] =
               <<SystemMessage, UserMessage(req[1].message),
                 UserMessage(req[2].message),
                 AssistantMessage(Reply(2)), AssistantMessage(Reply(1))>>

\* The session key the caller of r named (the default key if none).
KeyOf(r) == IF req[r].header = NoHeader THEN DefaultSession ELSE req[r].header

\* C14: a step changes or creates the transcript of key k only when it is a
\* step of a request on key k, and the transcript a request's Gateway call
\* carries is a prefix of the transcript of the request's own key.
C14_DistinctKeysIsolated ==
    /\ [][\A k \in DOMAIN chatHistory' :
             (k \notin DOMAIN chatHistory \/ chatHistory'[k] # chatHistory[k]) =>
             \E r \in Req : /\ req'[r].pc # req[r].pc
                            /\ req'[r].header # NoHeader \/ variant = "queued"
                            /\ k = IF req'[r].header = NoHeader
                                   THEN DefaultSession ELSE req'[r].header]_vars
    /\ [](Stateful =>
            /\ \A r \in Req : (req[r].calls > 0) =>
                  /\ KeyOf(r) \in DOMAIN chatHistory
                  /\ IsPrefix(req[r].sent, chatHistory[KeyOf(r)])
            /\ \A j \in 1..Len(jobs) : (jobs[j].calls > 0) =>
                  /\ KeyOf(jobs[j].owner) \in DOMAIN chatHistory
                  /\ IsPrefix(jobs[j].sent, chatHistory[KeyOf(jobs[j].owner)]))

\* C14 witness: two requests in flight on two keys, each transcript holding
\* its own request's message only.
C14_Witness ==
    /\ req[1].header = "s1" /\ req[2].header = "s2"
    /\ req[1].message # req[2].message
    /\ InFlight(1) /\ InFlight(2)
    /\ chatHistory["s1"] = <<SystemMessage, UserMessage(req[1].message)>>
    /\ chatHistory["s2"] = <<SystemMessage, UserMessage(req[2].message)>>

\* The transcript as it stood when r had appended its user message.
AtAppend(r) == Append(req[r].pre, UserMessage(req[r].message))

\* C15: queued variant: the transcript the worker sends for a job is the
\* session's transcript as it stood when the job's request enqueued it,
\* whatever the session's transcript holds when the worker runs.
C15_JobCarriesEnqueueSnapshot ==
    variant = "queued" =>
        \A j \in 1..Len(jobs) :
            jobs[j].calls > 0 => jobs[j].sent = AtAppend(jobs[j].owner)

Failed(r) == req[r].pc = "done" /\ req[r].status # 200

\* C16: every error response carries one of three fixed bodies, the body of a
\* 400 is fixed by which test failed and the body of a 500 is the same for
\* every request, whatever error its completion ended with.
C16_ConstantErrorBodies ==
    /\ \A r \in Req : Failed(r) =>
          /\ req[r].body \in {"session_required", "invalid_input", "unavailable"}
          /\ req[r].status = 500 => req[r].body = "unavailable"
          /\ req[r].status = 400 =>
                req[r].body = IF variant = "direct" /\ req[r].header = NoHeader
                              THEN "session_required" ELSE "invalid_input"
    /\ \A r, q \in Req :
          (Failed(r) /\ Failed(q) /\ req[r].status = req[q].status
           /\ req[r].last # "none" /\ req[q].last # "none") =>
          req[r].body = req[q].body

\* C16 witness: two requests answered 500, one after a thrown Gateway error
\* and one after a response without choices.
C16_Witness ==
    /\ req[1].pc = "done" /\ req[1].status = 500 /\ req[1].last = "error"
    /\ req[2].pc = "done" /\ req[2].status = 500 /\ req[2].last = "nochoice"

\* C17 as claimed: direct variant: whatever attempt a request is at, the
\* transcript of its last Gateway call is the transcript as it stood when the
\* request had appended its user message.
C17_SameTranscriptEveryAttempt ==
    variant = "direct" =>
        \A r \in Req : req[r].calls > 0 => req[r].sent = AtAppend(r)

\* C17 as amended: direct variant: every attempt sends the session's
\* transcript as it stands when the attempt starts, which at the first attempt
\* is the transcript right after the request's user message; with no other
\* request on the session in flight all attempts send that same transcript.
C17_AttemptSendsLiveTranscript ==
    /\ [][\A r \in Req :
             (variant = "direct" /\ req'[r].calls = req[r].calls + 1) =>
             /\ req'[r].sent = chatHistory'[req'[r].sessionId]
             /\ req'[r].calls = 1 =>
                   req'[r].sent = Append(req'[r].pre, UserMessage(req'[r].message))]_vars
    /\ [](variant = "direct" =>
            \A r \in Req :
               (req[r].calls > 0 /\ req[r].alone) => req[r].sent = AtAppend(r))

\* C17 witness: a request is at its second attempt and the transcript it sent
\* ends with the user message of another request.
C17_Witness ==
    /\ variant = "direct"
    /\ req[1].pc = "call" /\ req[1].calls = 2
    /\ req[2].sessionId = req[1].sessionId
    /\ req[1].sent = <<SystemMessage, UserMessage(req[1].message),
                       UserMessage(req[2].message)>>

\* Refreshes whose response quoted a price that snapshot c holds.
ProducersOf(c) ==
    {i \in 1..MaxRefresh :
        \/ c.btcPrice = Price(i, "BTC")
        \/ c.ethPrice = Price(i, "ETH")
        \/ c.solPrice = Price(i, "SOL")}

\* C18: the snapshot in the cache is never replaced by the response of a
\* refresh started before the refresh whose response the cache holds.
C18_NoOlderRefreshReplaces ==
    [][cryptoCache' # cryptoCache =>
          \A i \in ProducersOf(cryptoCache'), j \in ProducersOf(cryptoCache) :
              i >= j]_vars

RoleCount(t, role, n) == Cardinality({i \in 1..n : t[i].role = role})

\* r has appended its user message: it found or seeded a transcript.
Appended(r) == req[r].pre # <<>>

\* C19: in every transcript every prefix holds at most as many assistant
\* messages as user messages; a transcript holds one user message for each
\* request on its key that passed validation and one assistant message for
\* each of these that was answered 200.
C19_AssistantsNeverExceedUsers ==
    Stateful =>
        \A k \in DOMAIN chatHistory :
            LET t == chatHistory[k] IN
            /\ \A n \in 1..Len(t) :
                  RoleCount(t, "assistant", n) <= RoleCount(t, "user", n)
            /\ RoleCount(t, "user", Len(t)) =
                  Cardinality({r \in Req : /\ req[r].sessionId = k
                                           /\ Appended(r)})
            /\ RoleCount(t, "assistant", Len(t)) =
                  Cardinality({r \in Req : /\ req[r].sessionId = k
                                           /\ Appended(r)
                                           /\ req[r].pc = "done"
                                           /\ req[r].status = 200})

\* C19 witness: two user messages, then the reply to the second request,
\* while the first request is still in flight.
C19_Witness ==
    \E k \in DOMAIN chatHistory :
        /\ InFlight(1) /\ req[1].sessionId = k
        /\ req[2].pc = "done" /\ req[2].status = 200 /\ req[2].sessionId = k
        /\ Len(chatHistory[k]) = 4
        /\ chatHistory[k][4] = AssistantMessage(Reply(2))

====
